---- MODULE Spec2Model ----
(***************************************************************************)
(* Model of web_ui.py: the background-job controller of the TradingAgents  *)
(* dashboard.  start_analysis spawns one daemon thread per job running     *)
(* analyze_stock_async, which reports through one status file per session; *)
(* check_analysis_status reads that file.  Files are modelled with the     *)
(* intermediate contents that open(path, 'w') followed by a write exposes. *)
(* Every file operation and every collaborator call of the worker may      *)
(* raise.  The clock advances when datetime.now() is read for a file name. *)
(* One client's session state is followed; other clients only start jobs.  *)
(* The archive readers are functions of the archive directory.  VariedSpec *)
(* runs the same worker on tickers and engine results that differ.         *)
(***************************************************************************)
EXTENDS Integers, Sequences, FiniteSets, TLC

\* ---------------------------------------------------------------- bounds
\* datetime.now() returns seconds 0..MaxClock
MaxClock == 1

\* ---------------------------------------------------------------- inputs
None == 0
\* the session ids uuid.uuid4() hands out, one per job
Jobs == {1, 2}
\* session ids a caller may present to check_analysis_status
SessionInputs == {None} \cup Jobs

NoneTicker == <<"<None>">>
\* raw ticker inputs: None, empty, blank, and non-blank ones that need
\* trimming and upper-casing
TickerInputs == {NoneTicker, <<>>, <<" ">>, <<" ", "a">>, <<"A", " ">>}
DateInputs == {"2025-10-15"}

\* what ta.propagate may return: (graph_output, decision)
LongText == [content |-> "report", len |-> 101, tool_calls |-> FALSE, human |-> FALSE]
ShortText == [content |-> "ok", len |-> 2, tool_calls |-> FALSE, human |-> FALSE]
ToolCall == [content |-> "call", len |-> 150, tool_calls |-> TRUE, human |-> FALSE]
Outputs ==
  { [graph_output |-> [isdict |-> TRUE, messages |-> <<LongText, ShortText, ToolCall>>],
     decision |-> "BUY"] }
NoOutput == [graph_output |-> [isdict |-> FALSE, messages |-> <<>>], decision |-> ""]

\* inputs of VariedSpec: tickers that differ after normalization, and an engine
\* whose results differ from run to run
VariedTickers == {<<>>, <<" ", "a">>, <<"b">>}
VariedOutputs ==
  Outputs \cup {[graph_output |-> [isdict |-> FALSE, messages |-> <<>>], decision |-> "SELL"]}

\* ---------------------------------------------------------------- strings
IsSpace(c) == c = " "

\* str.upper()
UpperChar(c) == CASE c = "a" -> "A" [] c = "b" -> "B" [] OTHER -> c
Upper(s) == [i \in 1..Len(s) |-> UpperChar(s[i])]

\* str.strip(): drop leading and trailing whitespace
RECURSIVE LStrip(_)
LStrip(s) == IF s # <<>> /\ IsSpace(Head(s)) THEN LStrip(Tail(s)) ELSE s
RECURSIVE RStrip(_)
RStrip(s) ==
  IF s # <<>> /\ IsSpace(s[Len(s)]) THEN RStrip(SubSeq(s, 1, Len(s) - 1)) ELSE s
Strip(s) == RStrip(LStrip(s))

\* line 63: ticker.strip().upper()
Normalize(t) == Upper(Strip(t))

\* line 266: not ticker or ticker.strip() == ""
InvalidTickerNoStrip(t) == t = NoneTicker \/ t = <<>>
InvalidTicker(t) == t = NoneTicker \/ t = <<>> \/ Strip(t) = <<>>

\* ---------------------------------------------------------------- files
\* content of a path: absent, truncated by open(..., 'w'), partly flushed,
\* or holding the whole document
NoFile == [k |-> "absent"]
Empty == [k |-> "empty"]
Partial(r) == [k |-> "partial", rec |-> r]
Full(r) == [k |-> "full", rec |-> r]

\* ---------------------------------------------------------------- records
Fixed(text) == [fmt |-> text, ticker |-> <<>>]

\* the progress value of each running snapshot, in program order
ProgressAtLowered(step) == CASE step = 1 -> 10 [] step = 2 -> 20 [] step = 3 -> 5
                             [] step = 4 -> 40 [] step = 5 -> 90
ProgressAt(step) == CASE step = 1 -> 10 [] step = 2 -> 20 [] step = 3 -> 30
                      [] step = 4 -> 40 [] step = 5 -> 90
MessageAt(step, t) ==
  CASE step = 1 -> Fixed("Starting analysis...")
    [] step = 2 -> Fixed("Clearing ChromaDB collections...")
    [] step = 3 -> Fixed("Initializing trading agents...")
    [] step = 4 -> [fmt |-> "Running multi-agent analysis for {ticker}...", ticker |-> t]
    [] step = 5 -> Fixed("Formatting results...")

\* lines 67, 70, 74, 80, 86
RunningRecord(step, t) ==
  [status |-> "running", ticker |-> t, progress |-> ProgressAt(step),
   message |-> MessageAt(step, t)]

\* lines 88-98: the transcript kept from graph_output
Keep(m) == m.content # "" /\ ~m.tool_calls /\ m.len > 100 /\ ~m.human
RECURSIVE Transcript(_)
Transcript(ms) ==
  IF ms = <<>> THEN <<>>
  ELSE (IF Keep(Head(ms)) THEN <<Head(ms).content>> ELSE <<>>) \o Transcript(Tail(ms))
AnalysisText(g) == IF g.isdict THEN Transcript(g.messages) ELSE <<"str(graph_output)">>

\* lines 100-126 (the text of the "Generated:" line is left out)
DisplayResult(t, d, o) ==
  [doc |-> "display", ticker |-> t, date |-> d,
   decision |-> o.decision, analysis |-> AnalysisText(o.graph_output)]
\* lines 128-144 (likewise)
SaveResult(t, d, o) ==
  [doc |-> "save", ticker |-> t, date |-> d,
   decision |-> o.decision, analysis |-> AnalysisText(o.graph_output)]
\* lines 175-193 (the text of the "Timestamp:" line is left out)
ErrorReport(t, d, e) ==
  [doc |-> "error_report", ticker |-> t, message |-> e, trace |-> <<"traceback", e>>,
   date |-> d]
NoText == [doc |-> ""]

\* line 148: Path('/tmp') / f"{ticker}_{analysis_date}_latest.md"
TempFile(t, d) == <<t, d>>
\* line 45: f"{ticker}_{analysis_date}_{timestamp}"
ArchiveName(t, d, now) == <<t, d, now>>

\* lines 155-162
CompleteRecord(t, text, path) ==
  [status |-> "complete", ticker |-> t, result |-> text, download_path |-> path,
   progress |-> 100, message |-> Fixed("Analysis complete!")]
\* lines 196-201
ErrorRecord(t, report, e) ==
  [status |-> "error", ticker |-> t, result |-> report, error |-> e]

\* ---------------------------------------------------------------- state
VARIABLES
  pc,             \* per job: where its worker thread stands
  ticker,         \* per job: the worker's ticker (argument, then normalized)
  date,           \* per job: analysis_date
  out,            \* per job: what ta.propagate returned
  display_result, \* per job: the rendered result
  err,            \* per job: str(e) of the exception the worker caught
  error_report,   \* per job: the rendered error report
  statusFiles,    \* STATUS_DIR: session id -> file content
  archive,        \* ANALYSIS_DIR: archive name -> [json, md]
  tmpFiles,       \* /tmp: download artifact path -> file content
  clock,          \* datetime.now(), in seconds
  req,            \* the start_analysis call in flight
  session_state,  \* the session id a client holds (gr.State)
  seen,           \* the progress last shown to it for that session id
  written,        \* per job: the terminal statuses its worker has written
  artifact,       \* per job: the download artifact its worker has written
  saved           \* per job: the archive names its save_analysis call has written

vars == <<pc, ticker, date, out, display_result, err, error_report, statusFiles, archive,
          tmpFiles, clock, req, session_state, seen, written, artifact, saved>>

workerVars == <<pc, ticker, date, out, display_result, err, error_report>>
storeVars == <<statusFiles, archive, tmpFiles>>
controllerVars == <<req, session_state, seen>>
historyVars == <<written, artifact, saved>>

\* ---------------------------------------------------------------- worker
\* positions of analyze_stock_async around its five running snapshots
OpenLabel(step) == CASE step = 1 -> "open10" [] step = 2 -> "open20" [] step = 3 -> "open30"
                     [] step = 4 -> "open40" [] step = 5 -> "open90"
DumpLabel(step) == CASE step = 1 -> "dump10" [] step = 2 -> "dump20" [] step = 3 -> "dump30"
                     [] step = 4 -> "dump40" [] step = 5 -> "dump90"
AfterRunning(step) == CASE step = 1 -> "open20" [] step = 2 -> "clear"
                        [] step = 3 -> "construct" [] step = 4 -> "propagate"
                        [] step = 5 -> "format"

Goto(j, label) == pc' = [pc EXCEPT ![j] = label]
\* the thread ends and its frame goes with it
Return(j, label) ==
  /\ pc' = [pc EXCEPT ![j] = label]
  /\ out' = [out EXCEPT ![j] = NoOutput]
  /\ display_result' = [display_result EXCEPT ![j] = NoText]
  /\ err' = [err EXCEPT ![j] = ""]
  /\ error_report' = [error_report EXCEPT ![j] = NoText]
\* an exception raised inside the try block: control passes to line 166
Raise(j, e) == /\ Goto(j, "except")
               /\ err' = [err EXCEPT ![j] = e]

\* lines 60-66, 69, 73, 79, 85: open(status_file, 'w') truncates the file;
\* the first one follows the normalization of the ticker
OpenRunning(j, step) ==
  /\ pc[j] = OpenLabel(step)
  /\ ticker' = [ticker EXCEPT ![j] = IF step = 1 THEN Normalize(@) ELSE @]
  /\ \/ /\ statusFiles' = [statusFiles EXCEPT ![j] = Empty]
        /\ Goto(j, DumpLabel(step))
        /\ UNCHANGED err
     \/ /\ Raise(j, "OSError")
        /\ UNCHANGED statusFiles
  /\ UNCHANGED <<date, out, display_result, error_report, archive, tmpFiles, clock,
                 controllerVars, historyVars>>

\* the running snapshot written to a status_file that is one module-level name,
\* bound by the thread started last
DumpRunningShared(j, step) ==
  /\ pc[j] = DumpLabel(step)
  /\ LET latest == CHOOSE i \in Jobs : pc[i] # "none" /\ \A k \in Jobs : k > i => pc[k] = "none"
     IN \/ /\ statusFiles' = [statusFiles EXCEPT
                                ![latest] = Full(RunningRecord(step, ticker[j]))]
           /\ Goto(j, AfterRunning(step))
           /\ UNCHANGED err
        \/ /\ Raise(j, "OSError")
           /\ UNCHANGED statusFiles
  /\ UNCHANGED <<ticker, date, out, display_result, error_report, archive, tmpFiles,
                 clock, controllerVars, historyVars>>

\* lines 67, 70, 74, 80, 86: json.dump and the close that flushes it
DumpRunning(j, step) ==
  /\ pc[j] = DumpLabel(step)
  /\ \/ /\ statusFiles' = [statusFiles EXCEPT ![j] = Full(RunningRecord(step, ticker[j]))]
        /\ Goto(j, AfterRunning(step))
        /\ UNCHANGED err
     \/ /\ Raise(j, "OSError")
        /\ UNCHANGED statusFiles
  /\ UNCHANGED <<ticker, date, out, display_result, error_report, archive, tmpFiles,
                 clock, controllerVars, historyVars>>

\* lines 22-38, 71: the index reset returns, or one of its calls raises and
\* control passes to its own handler at line 39
ClearChromadb(j) ==
  /\ pc[j] = "clear"
  /\ \/ Goto(j, "open30")
     \/ Goto(j, "clear_except")
  /\ UNCHANGED <<ticker, date, out, display_result, err, error_report, storeVars, clock,
                 controllerVars, historyVars>>

\* the handler of the index reset lets the exception through to the worker
ClearExceptRaising(j) ==
  /\ pc[j] = "clear_except"
  /\ Raise(j, "could not clear ChromaDB")
  /\ UNCHANGED <<ticker, date, out, display_result, error_report, storeVars, clock,
                 controllerVars, historyVars>>

\* lines 39-40: the handler of the index reset prints a warning and returns
ClearExcept(j) ==
  /\ pc[j] = "clear_except"
  /\ Goto(j, "open30")
  /\ UNCHANGED <<ticker, date, out, display_result, err, error_report, storeVars, clock,
                 controllerVars, historyVars>>

\* lines 75-76: TradingAgentsGraph(debug=True, config=config)
Construct(j) ==
  /\ pc[j] = "construct"
  /\ \/ Goto(j, "open40") /\ UNCHANGED err
     \/ Raise(j, "engine construction failed")
  /\ UNCHANGED <<ticker, date, out, display_result, error_report, storeVars, clock,
                 controllerVars, historyVars>>

\* line 82: graph_output, decision = ta.propagate(ticker, analysis_date), with
\* an engine that may return any of outs
PropagateOf(j, outs) ==
  /\ pc[j] = "propagate"
  /\ \/ /\ \E o \in outs : out' = [out EXCEPT ![j] = o]
        /\ Goto(j, "open90")
        /\ UNCHANGED err
     \/ /\ Raise(j, "propagate failed")
        /\ UNCHANGED out
  /\ UNCHANGED <<ticker, date, display_result, error_report, storeVars, clock,
                 controllerVars, historyVars>>

Propagate(j) == PropagateOf(j, Outputs)

\* lines 88-126: the transcript and display_result
Format(j) ==
  /\ pc[j] = "format"
  /\ \/ /\ display_result' = [display_result EXCEPT
                                ![j] = DisplayResult(ticker[j], date[j], out[j])]
        /\ Goto(j, "save")
        /\ UNCHANGED err
     \/ /\ Raise(j, "formatting failed")
        /\ UNCHANGED display_result
  /\ UNCHANGED <<ticker, date, out, error_report, storeVars, clock, controllerVars,
                 historyVars>>

\* datetime.now(): the clock never runs backwards
Now == {t \in 0..MaxClock : clock <= t /\ t <= clock + 1}

\* save_analysis without its try block: a failed archive write raises into the
\* worker
SaveAnalysisRaising(j) ==
  /\ pc[j] = "save"
  /\ \E now \in Now :
       LET name == ArchiveName(ticker[j], date[j], now)
           text == SaveResult(ticker[j], date[j], out[j])
           json == [ticker |-> ticker[j], analysis_date |-> date[j],
                    timestamp |-> now, result |-> text]
       IN /\ clock' = now
          /\ \/ /\ archive' = (name :> [json |-> json, md |-> text]) @@ archive
                /\ saved' = [saved EXCEPT ![j] = Append(@, name)]
                /\ Goto(j, "tmp_open")
                /\ UNCHANGED err
             \/ /\ Raise(j, "OSError")
                /\ UNCHANGED <<archive, saved>>
  /\ UNCHANGED <<ticker, date, out, display_result, error_report, statusFiles,
                 tmpFiles, controllerVars, written, artifact>>

\* lines 42-56, 128-146: save_result and save_analysis, which returns False
\* instead of raising; both files are written, or the failure leaves none
SaveAnalysis(j) ==
  /\ pc[j] = "save"
  /\ \E now \in Now :
       LET name == ArchiveName(ticker[j], date[j], now)
           text == SaveResult(ticker[j], date[j], out[j])
           json == [ticker |-> ticker[j], analysis_date |-> date[j],
                    timestamp |-> now, result |-> text]
       IN /\ clock' = now
          /\ \/ /\ archive' = (name :> [json |-> json, md |-> text]) @@ archive
                /\ saved' = [saved EXCEPT ![j] = Append(@, name)]
             \/ UNCHANGED <<archive, saved>>
  /\ Goto(j, "tmp_open")
  /\ UNCHANGED <<ticker, date, out, display_result, err, error_report, statusFiles,
                 tmpFiles, controllerVars, written, artifact>>

\* lines 148-149: open(temp_file, 'w')
OpenDownload(j) ==
  /\ pc[j] = "tmp_open"
  /\ LET path == TempFile(ticker[j], date[j])
     IN \/ /\ tmpFiles' = (path :> Empty) @@ tmpFiles
           /\ Goto(j, "tmp_write")
           /\ UNCHANGED err
        \/ /\ Raise(j, "OSError")
           /\ UNCHANGED tmpFiles
  /\ UNCHANGED <<ticker, date, out, display_result, error_report, statusFiles, archive,
                 clock, controllerVars, historyVars>>

\* line 150: f.write(display_result), flushed by the close; no write at all
WriteDownloadSkipped(j) ==
  /\ pc[j] = "tmp_write"
  /\ Goto(j, "openC")
  /\ UNCHANGED <<ticker, date, out, display_result, err, error_report, storeVars, clock,
                 controllerVars, historyVars>>

\* line 150: f.write(display_result), flushed by the close
WriteDownload(j) ==
  /\ pc[j] = "tmp_write"
  /\ LET path == TempFile(ticker[j], date[j])
     IN \/ /\ tmpFiles' = (path :> Full(display_result[j])) @@ tmpFiles
           /\ artifact' = [artifact EXCEPT ![j] = [path |-> path, text |-> display_result[j]]]
           /\ Goto(j, "openC")
           /\ UNCHANGED err
        \/ /\ Raise(j, "OSError")
           /\ UNCHANGED <<tmpFiles, artifact>>
  /\ UNCHANGED <<ticker, date, out, display_result, error_report, statusFiles, archive,
                 clock, controllerVars, written, saved>>

\* line 154: open(status_file, 'w') for the terminal record
OpenComplete(j) ==
  /\ pc[j] = "openC"
  /\ \/ /\ statusFiles' = [statusFiles EXCEPT ![j] = Empty]
        /\ Goto(j, "dumpC")
        /\ UNCHANGED err
     \/ /\ Raise(j, "OSError")
        /\ UNCHANGED statusFiles
  /\ UNCHANGED <<ticker, date, out, display_result, error_report, archive, tmpFiles, clock,
                 controllerVars, historyVars>>

CompleteOf(j) ==
  CompleteRecord(ticker[j], display_result[j], TempFile(ticker[j], date[j]))

\* the terminal record is whole on disk, and what follows it raises
FinishCompleteRaising(j) ==
  /\ statusFiles' = [statusFiles EXCEPT ![j] = Full(CompleteOf(j))]
  /\ written' = [written EXCEPT ![j] = Append(@, "complete")]
  /\ Raise(j, "OSError")
  /\ UNCHANGED <<out, display_result, error_report>>

\* lines 162-164: the terminal record is whole on disk and the thread ends
FinishComplete(j) ==
  /\ statusFiles' = [statusFiles EXCEPT ![j] = Full(CompleteOf(j))]
  /\ written' = [written EXCEPT ![j] = Append(@, "complete")]
  /\ Return(j, "done")

\* a failed write of the terminal record: control passes to line 166
FailComplete(j) ==
  /\ Raise(j, "OSError")
  /\ UNCHANGED <<statusFiles, written, out, display_result, error_report>>

\* lines 155-162: json.dump of the terminal record; a result larger than the
\* file buffer reaches the disk in more than one write
DumpComplete(j) ==
  /\ pc[j] = "dumpC"
  /\ \/ FinishComplete(j)
     \/ /\ statusFiles' = [statusFiles EXCEPT ![j] = Partial(CompleteOf(j))]
        /\ Goto(j, "moreC")
        /\ UNCHANGED <<written, out, display_result, err, error_report>>
     \/ FailComplete(j)
  /\ UNCHANGED <<ticker, date, archive, tmpFiles, clock, controllerVars, artifact, saved>>

\* lines 155-162, the rest of a large terminal record
MoreComplete(j) ==
  /\ pc[j] = "moreC"
  /\ \/ FinishComplete(j)
     \/ FailComplete(j)
  /\ UNCHANGED <<ticker, date, archive, tmpFiles, clock, controllerVars, artifact, saved>>

\* an exception raised inside the handler leaves the thread
Crash(j) ==
  /\ Return(j, "crashed")
  /\ UNCHANGED <<statusFiles, written>>

\* lines 166-195: the handler renders the report and opens the status file
OpenError(j) ==
  /\ pc[j] = "except"
  /\ \/ /\ error_report' = [error_report EXCEPT
                              ![j] = ErrorReport(ticker[j], date[j], err[j])]
        /\ statusFiles' = [statusFiles EXCEPT ![j] = Empty]
        /\ Goto(j, "dumpE")
        /\ UNCHANGED <<written, out, display_result, err>>
     \/ Crash(j)
  /\ UNCHANGED <<ticker, date, archive, tmpFiles, clock, controllerVars, artifact, saved>>

ErrorOf(j) == ErrorRecord(ticker[j], error_report[j], err[j])

\* lines 196-201: the error record is whole on disk and the thread ends
FinishError(j) ==
  /\ statusFiles' = [statusFiles EXCEPT ![j] = Full(ErrorOf(j))]
  /\ written' = [written EXCEPT ![j] = Append(@, "error")]
  /\ Return(j, "done")

\* lines 196-201: json.dump of the error record
DumpError(j) ==
  /\ pc[j] = "dumpE"
  /\ \/ FinishError(j)
     \/ /\ statusFiles' = [statusFiles EXCEPT ![j] = Partial(ErrorOf(j))]
        /\ Goto(j, "moreE")
        /\ UNCHANGED <<written, out, display_result, err, error_report>>
     \/ Crash(j)
  /\ UNCHANGED <<ticker, date, archive, tmpFiles, clock, controllerVars, artifact, saved>>

\* lines 196-201, the rest of a large error record
MoreError(j) ==
  /\ pc[j] = "moreE"
  /\ \/ FinishError(j)
     \/ Crash(j)
  /\ UNCHANGED <<ticker, date, archive, tmpFiles, clock, controllerVars, artifact, saved>>

\* analyze_stock_async without its analysis call, one step of the thread of
\* job j
Steps(j) ==
  \/ \E step \in 1..5 : OpenRunning(j, step)
  \/ \E step \in 1..5 : DumpRunning(j, step)
  \/ ClearChromadb(j)
  \/ ClearExcept(j)
  \/ Construct(j)
  \/ Format(j)
  \/ SaveAnalysis(j)
  \/ OpenDownload(j)
  \/ WriteDownload(j)
  \/ OpenComplete(j)
  \/ DumpComplete(j)
  \/ MoreComplete(j)
  \/ OpenError(j)
  \/ DumpError(j)
  \/ MoreError(j)

\* analyze_stock_async, one step of the thread of job j
Worker(j) == Steps(j) \/ Propagate(j)

\* ---------------------------------------------------------------- controller
Hidden == [visible |-> FALSE]
Shown(path) == [visible |-> TRUE, value |-> path]

\* lines 206-210
ReadyResponse(sid) ==
  [view |-> [kind |-> "ready"], download |-> Hidden, session_id |-> sid]
\* lines 215-219
InitializingResponse(sid) ==
  [view |-> [kind |-> "initializing"], download |-> Hidden, session_id |-> sid]
\* lines 224-229
LoadingResponseCleared(sid) ==
  [view |-> [kind |-> "loading"], download |-> Hidden, session_id |-> None]
LoadingResponse(sid) ==
  [view |-> [kind |-> "loading"], download |-> Hidden, session_id |-> sid]
\* lines 231-239
RunningResponse(sid, status) ==
  [view |-> [kind |-> "progress", ticker |-> status.ticker,
             progress |-> status.progress, message |-> status.message],
   download |-> Hidden, session_id |-> sid]
\* lines 241-248
CompleteResponse(sid, status) ==
  [view |-> [kind |-> "result", text |-> status.result],
   download |-> Shown(status.download_path), session_id |-> None]
\* lines 250-256
ErrorResponseKept(sid, status) ==
  [view |-> [kind |-> "result", text |-> status.result],
   download |-> Hidden, session_id |-> sid]
ErrorResponse(sid, status) ==
  [view |-> [kind |-> "result", text |-> status.result],
   download |-> Hidden, session_id |-> None]
\* lines 258-262
UnknownResponse(sid) ==
  [view |-> [kind |-> "unknown_status"], download |-> Hidden, session_id |-> sid]

\* json.load of what a read of the file returns: only a whole document parses
Parses(file) == file.k = "full"

\* lines 203-262: check_analysis_status on the content found at the status path
CheckAnalysisStatus(sid, file) ==
  IF sid = None THEN ReadyResponse(sid)
  ELSE IF file.k = "absent" THEN InitializingResponse(sid)
  ELSE IF ~Parses(file) THEN LoadingResponse(sid)
  ELSE LET status == file.rec
       IN CASE status.status = "running" -> RunningResponse(sid, status)
            [] status.status = "complete" -> CompleteResponse(sid, status)
            [] status.status = "error" -> ErrorResponse(sid, status)
            [] OTHER -> UnknownResponse(sid)

\* the status file a session id names; ids never handed out have none
StatusFile(sid) == IF sid \in Jobs THEN statusFiles[sid] ELSE NoFile

\* the response check_analysis_status gives to sid in the current state
CheckResponse(sid) == CheckAnalysisStatus(sid, StatusFile(sid))

\* the progress a response shows the client, if it shows any
Shows(resp, before) ==
  IF resp.view.kind = "progress" THEN resp.view.progress
  ELSE IF resp.session_id = None THEN 0 ELSE before

\* check_analysis_status removing the status file of a finished job it has read
CheckRemoving ==
  /\ LET resp == CheckResponse(session_state)
     IN /\ session_state' = resp.session_id
        /\ seen' = Shows(resp, seen)
        /\ statusFiles' = IF session_state \in Jobs /\ resp.session_id = None
                          THEN [statusFiles EXCEPT ![session_state] = NoFile]
                          ELSE statusFiles
  /\ UNCHANGED <<workerVars, archive, tmpFiles, clock, req, historyVars>>

\* lines 353-357: the client presses Check Status; the call reads its session
\* state and its third output replaces it
Check ==
  /\ LET resp == CheckResponse(session_state)
     IN /\ session_state' = resp.session_id
        /\ seen' = Shows(resp, seen)
  /\ UNCHANGED <<workerVars, storeVars, clock, req, historyVars>>

Idle == [state |-> "idle"]
Returning(resp) == [state |-> "returning", resp |-> resp]

\* lines 267-271
InvalidResponse ==
  [view |-> [kind |-> "invalid_input"], download |-> Hidden, session_id |-> None]
\* lines 277-281
StartedResponse(t, sid) ==
  [view |-> [kind |-> "started", ticker |-> Upper(t)], download |-> Hidden,
   session_id |-> sid]

\* lines 266-271: the input is rejected
StartInvalid(t, d) ==
  /\ req = Idle
  /\ InvalidTicker(t)
  /\ req' = Returning(InvalidResponse)
  /\ UNCHANGED <<workerVars, storeVars, clock, session_state, seen, historyVars>>

\* uuid.uuid4(): an id no earlier job has
FreshId == CHOOSE j \in Jobs : pc[j] = "none" /\ \A i \in Jobs : i < j => pc[i] # "none"

\* lines 273-275: a fresh session id and thread.start()
StartSpawn(t, d) ==
  /\ req = Idle
  /\ ~InvalidTicker(t)
  /\ \E j \in Jobs : pc[j] = "none"
  /\ LET session_id == FreshId
     IN /\ pc' = [pc EXCEPT ![session_id] = "open10"]
        /\ ticker' = [ticker EXCEPT ![session_id] = t]
        /\ date' = [date EXCEPT ![session_id] = d]
        /\ req' = Returning(StartedResponse(t, session_id))
  /\ UNCHANGED <<out, display_result, err, error_report, storeVars, clock,
                 session_state, seen, historyVars>>

\* lines 264-275: start_analysis up to its return statement
StartAnalysis(t, d) == StartInvalid(t, d) \/ StartSpawn(t, d)

\* lines 346-350: the outputs of start_analysis reach the client that pressed
\* Analyze; mine tells whether that is the client whose session state is kept
Deliver(resp, mine) ==
  IF mine THEN session_state' = resp.session_id /\ seen' = 0
  ELSE UNCHANGED <<session_state, seen>>

\* the thread a started response belongs to has ended (thread.join())
Joined(resp) == resp.session_id \in Jobs => pc[resp.session_id] \in {"done", "crashed"}

\* start_analysis returning only once its thread has ended
StartReturnJoined ==
  /\ req.state = "returning"
  /\ Joined(req.resp)
  /\ \E mine \in BOOLEAN : Deliver(req.resp, mine)
  /\ req' = Idle
  /\ UNCHANGED <<workerVars, storeVars, clock, historyVars>>

\* lines 267-271, 277-281: start_analysis returns its three outputs to a client
ReturnTo(mine) ==
  /\ req.state = "returning"
  /\ Deliver(req.resp, mine)
  /\ req' = Idle
  /\ UNCHANGED <<workerVars, storeVars, clock, historyVars>>

\* lines 267-271, 277-281: start_analysis returns its three outputs
StartReturn == \E mine \in BOOLEAN : ReturnTo(mine)

\* ---------------------------------------------------------------- archive
\* the characters of an archive file name, as code points; the date and the
\* timestamp are of fixed width and stand as one number each
Code(c) == CASE c = "A" -> 65 [] c = "B" -> 66 [] c = "_" -> 95 [] c = " " -> 32
             [] c = "a" -> 97 [] c = "b" -> 98
DateCode(d) == CASE d = "2025-10-15" -> 20251015
\* line 45: f"{ticker}_{analysis_date}_{timestamp}"
FileName(name) ==
  [i \in 1..Len(name[1]) |-> Code(name[1][i])]
    \o <<Code("_"), DateCode(name[2]), Code("_"), name[3]>>

\* the order of strings
RECURSIVE LexLess(_, _)
LexLess(a, b) ==
  IF a = <<>> THEN b # <<>>
  ELSE IF b = <<>> THEN FALSE
  ELSE IF Head(a) # Head(b) THEN Head(a) < Head(b)
  ELSE LexLess(Tail(a), Tail(b))

\* line 286: sorted(ANALYSIS_DIR.glob("*.json"), reverse=True)
RECURSIVE SortedReverse(_)
SortedReverse(names) ==
  IF names = {} THEN <<>>
  ELSE LET last == CHOOSE x \in names :
                     \A y \in names \ {x} : LexLess(FileName(y), FileName(x))
       IN <<last>> \o SortedReverse(names \ {last})

\* lines 283-295: load_past_analyses
LoadPastAnalyses ==
  LET files == SortedReverse(DOMAIN archive)
  IN [i \in 1..Len(files) |->
        [filename |-> files[i], ticker |-> archive[files[i]].json.ticker,
         date |-> archive[files[i]].json.analysis_date,
         timestamp |-> archive[files[i]].json.timestamp]]

\* lines 297-308: load_analysis_content
LoadAnalysisContent(filename) ==
  IF filename = <<>> THEN [doc |-> "select"]
  ELSE IF filename \in DOMAIN archive THEN archive[filename].json.result
  ELSE [doc |-> "not_found"]

\* ---------------------------------------------------------------- system
NoArtifact == [path |-> <<>>]

Init ==
  /\ pc = [j \in Jobs |-> "none"]
  /\ ticker = [j \in Jobs |-> <<>>]
  /\ date = [j \in Jobs |-> ""]
  /\ out = [j \in Jobs |-> NoOutput]
  /\ display_result = [j \in Jobs |-> NoText]
  /\ err = [j \in Jobs |-> ""]
  /\ error_report = [j \in Jobs |-> NoText]
  /\ statusFiles = [j \in Jobs |-> NoFile]
  /\ archive = <<>>
  /\ tmpFiles = <<>>
  /\ clock = 0
  /\ req = Idle
  /\ session_state = None
  /\ seen = 0
  /\ written = [j \in Jobs |-> <<>>]
  /\ artifact = [j \in Jobs |-> NoArtifact]
  /\ saved = [j \in Jobs |-> <<>>]

Next ==
  \/ \E t \in TickerInputs, d \in DateInputs : StartAnalysis(t, d)
  \/ StartReturn
  \/ Check
  \/ \E j \in Jobs : Worker(j)

Spec == Init /\ [][Next]_vars

\* the same program with the varied inputs, all started by clients that do not
\* poll
VariedNext ==
  \/ \E t \in VariedTickers, d \in DateInputs : StartAnalysis(t, d)
  \/ ReturnTo(FALSE)
  \/ \E j \in Jobs : Steps(j) \/ PropagateOf(j, VariedOutputs)

VariedSpec == Init /\ [][VariedNext]_vars

\* the scheduler runs every started thread and every accepted request
FairSpec == Spec /\ WF_vars(StartReturn) /\ \A j \in Jobs : WF_vars(Worker(j))

\* ---------------------------------------------------------------- properties
Terminal(file) == file.k = "full" /\ file.rec.status \in {"complete", "error"}
Complete(file) == file.k = "full" /\ file.rec.status = "complete"
Ended(j) == pc[j] \in {"done", "crashed"}
Started(j) == pc[j] # "none"
\* a ticker that is None, empty or only whitespace
Blank(t) == t = NoneTicker \/ \A i \in 1..Len(t) : t[i] = " "
\* a record with a status the worker never writes
UnknownRecord == [status |-> "queued", ticker |-> <<"A">>]

\* C1: once the status record of a session is 'complete' or 'error', no step of
\* any worker or controller operation changes it, so every later
\* check_analysis_status call on that session returns the same response.
TerminalImmutable ==
  [][\A j \in Jobs : Terminal(statusFiles[j]) =>
        /\ statusFiles'[j] = statusFiles[j]
        /\ CheckResponse(j)' = CheckResponse(j)]_vars
\* both jobs have reached a terminal record, one of each kind
TerminalImmutableWitness ==
  \E i, j \in Jobs : /\ Complete(statusFiles[i])
                     /\ Terminal(statusFiles[j]) /\ statusFiles[j].rec.status = "error"

\* C2: a worker that has ended has written a terminal record exactly once, and
\* no worker ever writes both a 'complete' and an 'error' record, whichever of
\* its steps fail.
ExactlyOneTerminalWrite ==
  \A j \in Jobs : /\ Len(written[j]) <= 1
                  /\ Ended(j) => Len(written[j]) = 1

\* C3: every job start_analysis has spawned eventually has a status record with
\* status 'complete' or 'error'.
EveryJobTerminates == \A j \in Jobs : Started(j) ~> Terminal(statusFiles[j])

\* C4: while the client polls one session id, the progress values its 'running'
\* reads show never decrease.
ProgressMonotone == [][session_state' = session_state => seen' >= seen]_vars
\* the client has been shown 40 and the worker is rewriting the file
ProgressMonotoneWitness ==
  /\ session_state \in Jobs
  /\ seen = 40
  /\ statusFiles[session_state] = Empty
  /\ pc[session_state] = "dump90"

\* C5: whatever the worker is doing, a read of an existing status file returns
\* a whole snapshot, never an empty or truncated one.
ReadsWholeSnapshots ==
  \A sid \in Jobs : StatusFile(sid).k # "absent" => Parses(StatusFile(sid))

\* C6: start_analysis can return in every state in which its thread has been
\* spawned, whatever the thread is doing, and check_analysis_status can always
\* return.
StartNeverWaits ==
  /\ req.state = "returning" => ENABLED StartReturn
  /\ ENABLED Check
\* start_analysis has handed the client a session id whose worker has not yet
\* written anything, and another worker sits in the analysis call
StartNeverWaitsWitness ==
  /\ req = Idle
  /\ session_state \in Jobs
  /\ pc[session_state] = "open10"
  /\ statusFiles[session_state] = NoFile
  /\ \E j \in Jobs : pc[j] = "propagate"

\* C7: a start_analysis call with a None, empty or whitespace-only ticker
\* returns the 'Invalid Input' view with a null session id and a hidden
\* download control, spawns no worker and writes no file.
BlankTickerRejected ==
  [][req' # req =>
       \A t \in TickerInputs, d \in DateInputs :
         (Blank(t) /\ StartAnalysis(t, d)) =>
           /\ req' = Returning(InvalidResponse)
           /\ InvalidResponse.session_id = None /\ ~InvalidResponse.download.visible
           /\ UNCHANGED <<workerVars, storeVars>>]_vars
\* a rejected call is about to return while a job is running
BlankTickerRejectedWitness ==
  /\ req = Returning(InvalidResponse)
  /\ \E j \in Jobs : Started(j) /\ ~Ended(j)

\* C8: for a non-null session id whose status file is missing, empty or
\* truncated, check_analysis_status answers with a retry view, the download
\* control hidden and the same session id.
MissingOrUnreadableRetries ==
  \A sid \in Jobs :
    ~Parses(StatusFile(sid)) =>
      LET resp == CheckResponse(sid)
      IN /\ resp.view.kind \in {"initializing", "loading"}
         /\ ~resp.download.visible
         /\ resp.session_id = sid
\* the client holds a session id whose file is unreadable, another id was never
\* started
MissingOrUnreadableRetriesWitness ==
  /\ session_state \in Jobs
  /\ statusFiles[session_state].k = "partial"
  /\ CheckResponse(session_state).view.kind = "loading"
  /\ \E sid \in Jobs : ~Started(sid) /\ CheckResponse(sid).view.kind = "initializing"

\* C9: for a non-null session id, check_analysis_status returns a null session
\* id exactly when the record it read is 'complete' or 'error'; otherwise
\* (missing, unreadable, 'running', unknown status) it returns the id unchanged.
TokenClearedIffTerminal ==
  /\ \A sid \in Jobs :
       LET resp == CheckResponse(sid)
       IN /\ resp.session_id = None <=> Terminal(StatusFile(sid))
          /\ resp.session_id # None => resp.session_id = sid
  /\ \A sid \in Jobs : CheckAnalysisStatus(sid, Full(UnknownRecord)).session_id = sid
\* one session gets its id back while running, the other gets null for an
\* error record
TokenClearedIffTerminalWitness ==
  \E i, j \in Jobs :
    /\ CheckResponse(i).view.kind = "progress" /\ CheckResponse(i).session_id = i
    /\ statusFiles[j].k = "full" /\ statusFiles[j].rec.status = "error"
    /\ CheckResponse(j).session_id = None

\* C10: check_analysis_status shows the download control only for a record with
\* status 'complete', with that record's download_path; and whenever a job's
\* record is 'complete', its worker has already written the artifact at that
\* path.
DownloadOnlyWhenComplete ==
  /\ \A sid \in SessionInputs :
       LET resp == CheckResponse(sid)
       IN resp.download.visible =>
            /\ Complete(StatusFile(sid))
            /\ resp.download.value = StatusFile(sid).rec.download_path
  /\ \A sid \in SessionInputs :
       ~CheckAnalysisStatus(sid, Full(UnknownRecord)).download.visible
  /\ \A j \in Jobs :
       Complete(statusFiles[j]) =>
         /\ artifact[j].path = statusFiles[j].rec.download_path
         /\ statusFiles[j].rec.download_path \in DOMAIN tmpFiles
\* one job shows its download, the other job's error record hides it
DownloadOnlyWhenCompleteWitness ==
  \E i, j \in Jobs :
    /\ Complete(statusFiles[i]) /\ CheckResponse(i).download.visible
    /\ Terminal(statusFiles[j]) /\ ~CheckResponse(j).download.visible

\* an 'error' record, and the positions of the worker's handler
Failed(file) == file.k = "full" /\ file.rec.status = "error"
InHandler(j) == pc[j] \in {"except", "dumpE", "moreE"}
\* the archive names of a job, as a set
SavedBy(j) == {saved[j][i] : i \in 1..Len(saved[j])}

\* C12: a job that has reached 'complete' and whose save_analysis call succeeded
\* has exactly one archive record of its own, which no other job wrote, holding
\* the job's normalized ticker, its date and a non-empty result text; also when
\* several jobs with the same ticker and date complete concurrently.
OneArchiveRecordPerComplete ==
  \A j \in Jobs :
    (Complete(statusFiles[j]) /\ saved[j] # <<>>) =>
      /\ Len(saved[j]) = 1
      /\ saved[j][1] \in DOMAIN archive
      /\ \A i \in Jobs \ {j} : saved[j][1] \notin SavedBy(i)
      /\ LET record == archive[saved[j][1]].json
         IN /\ record.ticker = ticker[j]
            /\ record.analysis_date = date[j]
            /\ record.result.doc = "save"

\* C13: save_analysis never raises into the worker: whether or not the archive
\* was written, the worker goes on to the download artifact with no exception
\* recorded and its status file untouched; and every 'complete' record carries
\* progress 100 and follows the write of the artifact, archived or not.
ArchiveFailureSwallowed ==
  [][\A j \in Jobs :
       /\ pc[j] = "save" =>
            /\ pc'[j] \in {"save", "tmp_open"}
            /\ err'[j] = err[j]
            /\ statusFiles'[j] = statusFiles[j]
       /\ Complete(statusFiles'[j]) =>
            /\ statusFiles'[j].rec.progress = 100
            /\ artifact'[j] # NoArtifact]_vars
\* a job is 'complete' although its archive write failed
ArchiveFailureSwallowedWitness ==
  \E j \in Jobs :
    /\ Complete(statusFiles[j])
    /\ saved[j] = <<>>
    /\ archive = <<>>
    /\ statusFiles[j].rec.download_path \in DOMAIN tmpFiles

\* C14: when engine construction or the analysis call has raised, the worker
\* ends having written an 'error' record that carries the rendered error report
\* and the raw error message, and the job's record is never 'complete'.
AnalysisFailureReported ==
  [][\A j \in Jobs :
       (InHandler(j) /\ err[j] \in {"engine construction failed", "propagate failed"}) =>
         /\ ~Complete(statusFiles'[j])
         /\ Ended(j)' =>
              /\ Failed(statusFiles'[j])
              /\ statusFiles'[j].rec.error = err[j]
              /\ statusFiles'[j].rec.result = ErrorReport(ticker[j], date[j], err[j])]_vars

\* C15: when the index reset fails, its handler returns to the worker, which
\* stands before its progress-30 write with no exception recorded and its
\* status file as the progress-20 write left it.
IndexResetFailureSwallowed ==
  [][\A j \in Jobs :
       pc[j] = "clear_except" =>
         /\ pc'[j] \in {"clear_except", "open30"}
         /\ err'[j] = err[j]
         /\ statusFiles'[j] = Full(RunningRecord(2, ticker[j]))]_vars
\* the index reset of a job has failed
IndexResetFailureSwallowedWitness ==
  \E j \in Jobs : pc[j] = "clear_except" /\ statusFiles[j] = Full(RunningRecord(2, ticker[j]))

\* C18: a check_analysis_status call, whatever session id the client holds and
\* whatever the stores hold, leaves every status file, the archive and the
\* download artifacts unchanged.
ReadPathReadOnly == [][Check => UNCHANGED <<statusFiles, archive, tmpFiles>>]_vars
\* the client has polled a job at progress 90, the job has since completed and
\* all three stores hold data
ReadPathReadOnlyWitness ==
  /\ session_state \in Jobs
  /\ seen = 90
  /\ Complete(statusFiles[session_state])
  /\ saved[session_state] # <<>>
  /\ \E j \in Jobs : Failed(statusFiles[j])

\* C19: a job whose terminal status is 'error' has no archive record of its own,
\* whatever the step at which it failed.
NoArchiveRecordForFailedJob ==
  \A j \in Jobs : Failed(statusFiles[j]) => saved[j] = <<>>

\* C20: for every job whose record is 'complete', the download artifact at the
\* record's download_path holds the record's result.
ArtifactMatchesResult ==
  \A j \in Jobs :
    Complete(statusFiles[j]) =>
      LET path == statusFiles[j].rec.download_path
      IN /\ path \in DOMAIN tmpFiles
         /\ tmpFiles[path] = Full(statusFiles[j].rec.result)

\* the content the worker of job j has itself left in its status file, where its
\* position tells it; in its handler and after its end, the fields of the file
\* are those of its own ticker, date and run
OwnRecord(j) ==
  LET file == statusFiles[j]
  IN CASE pc[j] \in {"none", "open10"} -> file = NoFile
       [] pc[j] \in {"dump10", "dump20", "dump30", "dump40", "dump90", "dumpC"} ->
            file = Empty
       [] pc[j] = "open20" -> file = Full(RunningRecord(1, ticker[j]))
       [] pc[j] \in {"clear", "clear_except", "open30"} ->
            file = Full(RunningRecord(2, ticker[j]))
       [] pc[j] \in {"construct", "open40"} -> file = Full(RunningRecord(3, ticker[j]))
       [] pc[j] \in {"propagate", "open90"} -> file = Full(RunningRecord(4, ticker[j]))
       [] pc[j] \in {"format", "save", "tmp_open", "tmp_write", "openC"} ->
            file = Full(RunningRecord(5, ticker[j]))
       [] pc[j] = "moreC" -> file = Partial(CompleteOf(j))
       [] OTHER ->
            file.k \in {"partial", "full"} =>
              CASE file.rec.status = "running" ->
                     \E step \in 1..5 : file.rec = RunningRecord(step, ticker[j])
                [] file.rec.status = "complete" ->
                     \E o \in VariedOutputs :
                       file.rec = CompleteRecord(ticker[j],
                                                 DisplayResult(ticker[j], date[j], o),
                                                 TempFile(ticker[j], date[j]))
                [] file.rec.status = "error" ->
                     file.rec = ErrorRecord(ticker[j],
                                            ErrorReport(ticker[j], date[j], file.rec.error),
                                            file.rec.error)

\* C11: under every interleaving of the workers, the status file of each job
\* holds what its own worker last wrote, with that job's ticker, progress,
\* message, status and result, whatever the other worker has written since.
StatusRecordsIndependent == \A j \in Jobs : OwnRecord(j)
\* two jobs with distinct tickers, one 'complete' and one in its analysis call
StatusRecordsIndependentWitness ==
  \E i, j \in Jobs :
    /\ ticker[i] # ticker[j]
    /\ Complete(statusFiles[i])
    /\ pc[j] = "propagate" /\ statusFiles[j] = Full(RunningRecord(4, ticker[j]))

\* C16: load_past_analyses lists the archive records most recent first: no
\* record is listed before one created later.
ListingNewestFirst ==
  LET listing == LoadPastAnalyses
  IN \A i \in 1..Len(listing) - 1 : listing[i].timestamp >= listing[i + 1].timestamp

\* C17: an archive record, once created, stays in the archive and
\* load_analysis_content on its key returns the same text after every step.
ArchiveRecordImmutable ==
  [][\A filename \in DOMAIN archive :
       /\ filename \in DOMAIN archive'
       /\ LoadAnalysisContent(filename)' = LoadAnalysisContent(filename)]_vars
====
